---- MODULE Spec2Model ----
(***************************************************************************)
(* Constraint functions of the compiler flags                              *)
(* (src/hotspot/share/runtime/flags/jvmFlagConstraintsCompiler.cpp).       *)
(*                                                                         *)
(* The flag store is the record `flags`; every constraint function is an   *)
(* operator from (value, flags, platform) to a result record               *)
(*   [err, flags, written, diag]                                           *)
(* holding the returned JVMFlag::Error, the store after the call, the set  *)
(* of flags the call assigned, and the diagnostic it printed.  One action  *)
(* per constraint function evaluates it on the flag's current value, as    *)
(* the after-ergonomics constraint pass does.                              *)
(***************************************************************************)
EXTENDS Integers, Sequences, FiniteSets, TLC

VARIABLES flags, dflt, platform, last

vars == <<flags, dflt, platform, last>>

(***************************************************************************)
(* Bounds of the model.                                                    *)
(***************************************************************************)
\* Width of int in the model: INT_MAX = 2^IntBits - 1.  The program's int
\* has 31 value bits; the width is scaled so that INT_MAX * 100 stays
\* inside the integers of the model checker.
IntBits == 12
\* Alignment values supplied to the alignment flags are 1 .. MaxAlignmentInput.
MaxAlignmentInput == 34
\* Step sizes supplied to AllocatePrefetchStepSize are
\* -MaxStepInput .. MaxStepInput.
MaxStepInput == 17

(***************************************************************************)
(* Constants of the program.                                               *)
(***************************************************************************)
SUCCESS == "SUCCESS"
VIOLATES_CONSTRAINT == "VIOLATES_CONSTRAINT"

INT_MAX == 2^IntBits - 1
\* InvocationCounter::count_shift (interpreter/invocationCounter.hpp)
count_shift == 1
BytesPerLong == 8
sizeof_jdouble == 8

\* max_intx: intx is as wide as a machine word (twice int on 64-bit).
max_intx(p) == IF p.wordSize = 8 THEN 2^(IntBits + 8) - 1 ELSE INT_MAX

(***************************************************************************)
(* Arithmetic helpers.                                                     *)
(***************************************************************************)
\* C++ integer remainder: truncates toward zero, sign of the dividend.
CRem(a, b) == IF a >= 0 THEN a % b ELSE -((-a) % b)

\* C++ integer division: truncates toward zero.
CDiv(a, b) == IF a >= 0 THEN a \div b ELSE -((-a) \div b)

\* a >> n for a non-negative int
ShiftRight(a, n) == a \div (2^n)

PowersOfTwo == {2^k : k \in 0..(IntBits + 9)}

is_power_of_2(x) == x > 0 /\ x \in PowersOfTwo

\* round_down_power_of_2(x) for x > 0: the largest power of two <= x.
round_down_power_of_2(x) ==
  CHOOSE q \in PowersOfTwo : q <= x /\ \A r \in PowersOfTwo : r <= x => r <= q

\* round_down_power_of_2 requires value > 0 (an assert in debug builds); in a
\* product build a non-positive argument is undefined behaviour, so the
\* result is any of these outcomes.
UndefinedRoundDown == {-(2^(IntBits + 8)), 0, 1}

RoundDown(x, ub) == IF x > 0 THEN round_down_power_of_2(x) ELSE ub

(***************************************************************************)
(* Result of one constraint-function call.                                 *)
(***************************************************************************)
\* A diagnostic: the kind of message printed and its leading argument.
Diag(k, a) == [kind |-> k, arg |-> a]

NoDiag == Diag("none", 0)

Result(e, f, w, d) == [err |-> e, flags |-> f, written |-> w, diag |-> d]

Accept(f) == Result(SUCCESS, f, {}, NoDiag)

Violation(f, d) == Result(VIOLATES_CONSTRAINT, f, {}, d)

Repaired(f, name, v) ==
  Result(SUCCESS, [f EXCEPT ![name] = v], {name}, Diag("repaired", v))

(***************************************************************************)
(* The constraint functions.                                               *)
(***************************************************************************)
min_number_of_compiler_threads(p) ==
  IF p.COMPILER1_OR_COMPILER2
    THEN IF p.is_tiered THEN 2
         ELSE IF ~p.is_interpreter_only THEN 1 ELSE 0
    ELSE 0

CICompilerCountConstraintFunc(value, f, p) ==
  IF ~p.COMPILER1_OR_COMPILER2 /\ value > 0
    THEN IF f.VerifyFlagConstraints
           THEN Repaired(f, "CICompilerCount", -1)
           ELSE Violation(f, Diag("NoCompilers", value))
    ELSE IF value < min_number_of_compiler_threads(p)
           THEN IF f.VerifyFlagConstraints
                  THEN Repaired(f, "CICompilerCount",
                                min_number_of_compiler_threads(p))
                  ELSE Violation(f, Diag("AtLeast",
                                         min_number_of_compiler_threads(p)))
           ELSE Accept(f)

AllocatePrefetchDistanceConstraintFunc(value, f, p) ==
  IF value < 0 \/ value > 512
    THEN IF f.VerifyFlagConstraints
           THEN Repaired(f, "AllocatePrefetchDistance",
                         IF value < 0 THEN 1 ELSE 512)
           ELSE Violation(f, Diag("Between", 512))
    ELSE Accept(f)

AllocatePrefetchStepSizeConstraintFunc(value, f, p) ==
  IF f.AllocatePrefetchStyle = 3 /\ CRem(value, p.wordSize) # 0
    THEN IF f.VerifyFlagConstraints
           THEN LET remainder == CRem(value, p.wordSize)
                    stepped == value - remainder
                IN  Repaired(f, "AllocatePrefetchStepSize",
                             IF stepped = 0 THEN p.wordSize ELSE stepped)
           ELSE Violation(f, Diag("MultipleOf", p.wordSize))
    ELSE Accept(f)

AllocatePrefetchInstr_max_value(p) == IF p.X86 THEN 3 ELSE max_intx(p)

AllocatePrefetchInstrConstraintFunc(value, f, p) ==
  IF value < 0 \/ value > AllocatePrefetchInstr_max_value(p)
    THEN IF f.VerifyFlagConstraints
           THEN Repaired(f, "AllocatePrefetchInstr",
                         IF value < 0 THEN 0
                         ELSE AllocatePrefetchInstr_max_value(p))
           ELSE Violation(f, Diag("Between",
                                  AllocatePrefetchInstr_max_value(p)))
    ELSE Accept(f)

CompileThreshold_max == ShiftRight(INT_MAX, count_shift)

\* Variant without the VerifyFlagConstraints branch.
CompileThresholdConstraintFunc_norepair(value, f, p) ==
  IF value < 0 \/ value > CompileThreshold_max
    THEN Violation(f, Diag("Between", CompileThreshold_max))
    ELSE Accept(f)

CompileThresholdConstraintFunc(value, f, p) ==
  IF value < 0 \/ value > CompileThreshold_max
    THEN IF f.VerifyFlagConstraints
           THEN Repaired(f, "CompileThreshold",
                         IF value < 0 THEN 0 ELSE CompileThreshold_max)
           ELSE Violation(f, Diag("Between", CompileThreshold_max))
    ELSE Accept(f)

\* Variant that shifts when profiling is enabled instead of disabled.
max_percentage_limit_shiftprofiled(f) ==
  LET base == IF f.ProfileInterpreter
                THEN ShiftRight(INT_MAX, count_shift) ELSE INT_MAX
  IN  IF f.CompileThreshold = 0
        THEN base * 100
        ELSE CDiv(base * 100, f.CompileThreshold)

\* max_percentage_limit before the InterpreterProfilePercentage offset,
\* computed from the store the nested CompileThreshold check left behind.
max_percentage_limit(f) ==
  LET base == IF ~f.ProfileInterpreter
                THEN ShiftRight(INT_MAX, count_shift) ELSE INT_MAX
  IN  IF f.CompileThreshold = 0
        THEN base * 100
        ELSE CDiv(base * 100, f.CompileThreshold)

\* The part of OnStackReplacePercentageConstraintFunc after the nested
\* CompileThreshold check; w is what that check assigned.
OnStackReplacePercentageBounds(value, f, w) ==
  IF f.ProfileInterpreter
    THEN IF value < f.InterpreterProfilePercentage
           THEN IF f.VerifyFlagConstraints
                  THEN Result(SUCCESS,
                         [f EXCEPT !.OnStackReplacePercentage =
                                      f.InterpreterProfilePercentage],
                         w \cup {"OnStackReplacePercentage"},
                         Diag("repaired", f.InterpreterProfilePercentage))
                  ELSE Result(VIOLATES_CONSTRAINT, f, w,
                         Diag("LargerThanInterpreterProfilePercentage",
                              f.InterpreterProfilePercentage))
           ELSE LET limit == max_percentage_limit(f)
                               + f.InterpreterProfilePercentage
                IN  IF value > limit
                      THEN IF f.VerifyFlagConstraints
                             THEN Result(SUCCESS,
                                    [f EXCEPT !.OnStackReplacePercentage = limit],
                                    w \cup {"OnStackReplacePercentage"},
                                    Diag("repaired", limit))
                             ELSE Result(VIOLATES_CONSTRAINT, f, w,
                                         Diag("Between", limit))
                      ELSE Result(SUCCESS, f, w, NoDiag)
    ELSE IF value < 0
           THEN IF f.VerifyFlagConstraints
                  THEN Result(SUCCESS,
                         [f EXCEPT !.OnStackReplacePercentage = 0],
                         w \cup {"OnStackReplacePercentage"},
                         Diag("repaired", 0))
                  ELSE Result(VIOLATES_CONSTRAINT, f, w,
                              Diag("NonNegative", 0))
           ELSE LET limit == max_percentage_limit(f)
                IN  IF value > limit
                      THEN IF f.VerifyFlagConstraints
                             THEN Result(SUCCESS,
                                    [f EXCEPT !.OnStackReplacePercentage = limit],
                                    w \cup {"OnStackReplacePercentage"},
                                    Diag("repaired", limit))
                             ELSE Result(VIOLATES_CONSTRAINT, f, w,
                                         Diag("Between", limit))
                      ELSE Result(SUCCESS, f, w, NoDiag)

\* Variant that evaluates the bounds without verifying CompileThreshold.
OnStackReplacePercentageConstraintFunc_unverified(value, f, p) ==
  OnStackReplacePercentageBounds(value, f, {})

OnStackReplacePercentageConstraintFunc(value, f, p) ==
  LET ct == CompileThresholdConstraintFunc(f.CompileThreshold, f, p)
  IN  IF ct.err = VIOLATES_CONSTRAINT
        THEN Result(VIOLATES_CONSTRAINT, ct.flags, ct.written,
                    Diag("DependencyInvalid", f.CompileThreshold))
        ELSE OnStackReplacePercentageBounds(value, ct.flags, ct.written)

\* Variant that also compares against InteriorEntryAlignment.
CodeCacheSegmentSizeConstraintFunc_interior(value, f, p) ==
  IF f.CodeCacheSegmentSize < f.CodeEntryAlignment
    THEN Violation(f, Diag("LargerOrEqualCodeEntryAlignment",
                           f.CodeEntryAlignment))
    ELSE IF f.CodeCacheSegmentSize < sizeof_jdouble
      THEN Violation(f, Diag("AtLeast", sizeof_jdouble))
      ELSE IF p.COMPILER2 /\ f.CodeCacheSegmentSize < f.OptoLoopAlignment
        THEN Violation(f, Diag("LargerOrEqualOptoLoopAlignment",
                               f.OptoLoopAlignment))
        ELSE IF f.CodeCacheSegmentSize < f.InteriorEntryAlignment
          THEN Violation(f, Diag("LargerOrEqualInteriorEntryAlignment",
                                 f.InteriorEntryAlignment))
          ELSE Accept(f)

CodeCacheSegmentSizeConstraintFunc(value, f, p) ==
  IF f.CodeCacheSegmentSize < f.CodeEntryAlignment
    THEN Violation(f, Diag("LargerOrEqualCodeEntryAlignment",
                           f.CodeEntryAlignment))
    ELSE IF f.CodeCacheSegmentSize < sizeof_jdouble
      THEN Violation(f, Diag("AtLeast", sizeof_jdouble))
      ELSE IF p.COMPILER2 /\ f.CodeCacheSegmentSize < f.OptoLoopAlignment
        THEN Violation(f, Diag("LargerOrEqualOptoLoopAlignment",
                               f.OptoLoopAlignment))
        ELSE Accept(f)

\* Variant whose minimum is 8 instead of 16.
CodeEntryAlignmentConstraintFunc_min8(value, f, p) ==
  IF ~is_power_of_2(value)
    THEN Violation(f, Diag("NotPowerOfTwo", f.CodeEntryAlignment))
    ELSE IF f.CodeEntryAlignment < 8
      THEN Violation(f, Diag("AtLeast", 8))
      ELSE IF f.CodeEntryAlignment > f.CodeCacheSegmentSize
        THEN Violation(f, Diag("LessOrEqualCodeCacheSegmentSize",
                               f.CodeCacheSegmentSize))
        ELSE Accept(f)

CodeEntryAlignmentConstraintFunc(value, f, p) ==
  IF ~is_power_of_2(value)
    THEN Violation(f, Diag("NotPowerOfTwo", f.CodeEntryAlignment))
    ELSE IF f.CodeEntryAlignment < 16
      THEN Violation(f, Diag("AtLeast", 16))
      ELSE IF f.CodeEntryAlignment > f.CodeCacheSegmentSize
        THEN Violation(f, Diag("LessOrEqualCodeCacheSegmentSize",
                               f.CodeCacheSegmentSize))
        ELSE Accept(f)

OptoLoopAlignmentStrict(value, f, p) ==
  IF ~is_power_of_2(value)
    THEN Violation(f, Diag("NotPowerOfTwo", value))
    ELSE IF CRem(value, p.addr_unit) # 0
      THEN Violation(f, Diag("MultipleOf", p.addr_unit))
      ELSE IF value > f.CodeEntryAlignment
        THEN Violation(f, Diag("LessOrEqualCodeEntryAlignment",
                               f.CodeEntryAlignment))
        ELSE Accept(f)

\* ub is the outcome of round_down_power_of_2 on a non-positive argument.
OptoLoopAlignmentRepair(value, f, p, ub) ==
  LET v1 == IF ~is_power_of_2(value) THEN RoundDown(value, ub) ELSE value
      v2 == IF CRem(v1, p.addr_unit) # 0
              THEN v1 - CRem(v1, p.addr_unit) ELSE v1
      v3 == IF v2 > f.CodeEntryAlignment THEN f.CodeEntryAlignment ELSE v2
      verifyFailed == \/ ~is_power_of_2(value)
                      \/ CRem(v1, p.addr_unit) # 0
                      \/ v2 > f.CodeEntryAlignment
  IN  IF verifyFailed THEN Repaired(f, "OptoLoopAlignment", v3)
                      ELSE Accept(f)

OptoLoopAlignmentConstraintFunc(value, f, p, ub) ==
  IF f.VerifyFlagConstraints
    THEN OptoLoopAlignmentRepair(value, f, p, ub)
    ELSE OptoLoopAlignmentStrict(value, f, p)

ArraycopyDstPrefetchDistanceConstraintFunc(value, f, p) ==
  IF value >= 4032 THEN Violation(f, Diag("Between", 4031)) ELSE Accept(f)

AVX3ThresholdConstraintFunc(value, f, p) ==
  IF value # 0 /\ ~is_power_of_2(value)
    THEN Violation(f, Diag("NotPowerOfTwo", value))
    ELSE Accept(f)

ArraycopySrcPrefetchDistanceConstraintFunc(value, f, p) ==
  IF value >= 4032 THEN Violation(f, Diag("Between", 4031)) ELSE Accept(f)

\* The digit loop of TypeProfileLevelConstraintFunc: i is the position,
\* value the digits not yet consumed, suggested the digits kept so far.
RECURSIVE TypeProfileLevelLoop(_, _, _, _, _)
TypeProfileLevelLoop(i, value, suggested, verifyFailed, vfc) ==
  IF i = 3
    THEN [violated |-> FALSE, position |-> i, value |-> value,
          suggested |-> suggested, verifyFailed |-> verifyFailed]
    ELSE IF value % 10 > 2
      THEN IF vfc
             THEN TypeProfileLevelLoop(i + 1, value \div 10,
                                       Append(suggested, 2), TRUE, vfc)
             ELSE [violated |-> TRUE, position |-> i, value |-> value,
                   suggested |-> suggested, verifyFailed |-> verifyFailed]
      ELSE TypeProfileLevelLoop(i + 1, value \div 10,
                                Append(suggested, value % 10),
                                verifyFailed, vfc)

\* Variant that keeps the digits above the third instead of cutting them.
TypeProfileLevelConstraintFunc_keepexcess(value, f, p) ==
  LET loop == TypeProfileLevelLoop(0, value, <<>>, FALSE,
                                   f.VerifyFlagConstraints)
  IN  IF loop.violated
        THEN Violation(f, Diag("InvalidAtPosition", loop.position))
        ELSE IF loop.value # 0 /\ ~f.VerifyFlagConstraints
          THEN Violation(f, Diag("TooManyDigits", value))
          ELSE IF loop.verifyFailed \/ loop.value # 0
            THEN Repaired(f, "TypeProfileLevel",
                          loop.suggested[1] + loop.suggested[2] * 10
                            + loop.suggested[3] * 100 + loop.value * 1000)
            ELSE Accept(f)

TypeProfileLevelConstraintFunc(value, f, p) ==
  LET loop == TypeProfileLevelLoop(0, value, <<>>, FALSE,
                                   f.VerifyFlagConstraints)
  IN  IF loop.violated
        THEN Violation(f, Diag("InvalidAtPosition", loop.position))
        ELSE IF loop.value # 0 /\ ~f.VerifyFlagConstraints
          THEN Violation(f, Diag("TooManyDigits", value))
          ELSE IF loop.verifyFailed \/ loop.value # 0
            THEN Repaired(f, "TypeProfileLevel",
                          loop.suggested[1] + loop.suggested[2] * 10
                            + loop.suggested[3] * 100)
            ELSE Accept(f)

RECURSIVE VerifyIterativeGVNLoop(_, _)
VerifyIterativeGVNLoop(i, value) ==
  IF i = 2
    THEN [violated |-> FALSE, position |-> i, value |-> value]
    ELSE IF value % 10 > 1
      THEN [violated |-> TRUE, position |-> i, value |-> value]
      ELSE VerifyIterativeGVNLoop(i + 1, value \div 10)

VerifyIterativeGVNConstraintFunc(value, f, p) ==
  LET loop == VerifyIterativeGVNLoop(0, value)
  IN  IF loop.violated
        THEN Violation(f, Diag("InvalidAtPosition", loop.position))
        ELSE IF loop.value # 0
          THEN Violation(f, Diag("TooManyDigits", value))
          ELSE Accept(f)

InitArrayShortSizeConstraintFunc(value, f, p) ==
  IF CRem(value, BytesPerLong) # 0
    THEN Violation(f, Diag("MultipleOf", BytesPerLong))
    ELSE Accept(f)

minimum_alignment(p) ==
  IF p.X86 /\ ~p.AMD64 THEN 4 ELSE IF p.S390 THEN 2 ELSE 16

InteriorEntryAlignmentStrict(value, f, p) ==
  IF f.InteriorEntryAlignment > f.CodeEntryAlignment
    THEN Violation(f, Diag("LessOrEqualCodeEntryAlignment",
                           f.CodeEntryAlignment))
    ELSE IF ~is_power_of_2(value)
      THEN Violation(f, Diag("NotPowerOfTwo", f.InteriorEntryAlignment))
      ELSE IF value < minimum_alignment(p)
        THEN Violation(f, Diag("AtLeast", minimum_alignment(p)))
        ELSE Accept(f)

InteriorEntryAlignmentRepair(value, f, p, ub) ==
  LET v1 == IF f.InteriorEntryAlignment > f.CodeEntryAlignment
              THEN f.CodeEntryAlignment ELSE value
      v2 == IF ~is_power_of_2(v1) THEN RoundDown(v1, ub) ELSE v1
      v3 == IF v2 < minimum_alignment(p) THEN minimum_alignment(p) ELSE v2
      verifyFailed == \/ f.InteriorEntryAlignment > f.CodeEntryAlignment
                      \/ ~is_power_of_2(v1)
                      \/ v2 < minimum_alignment(p)
  IN  IF verifyFailed THEN Repaired(f, "InteriorEntryAlignment", v3)
                      ELSE Accept(f)

InteriorEntryAlignmentConstraintFunc(value, f, p, ub) ==
  IF f.VerifyFlagConstraints
    THEN InteriorEntryAlignmentRepair(value, f, p, ub)
    ELSE InteriorEntryAlignmentStrict(value, f, p)

NodeLimitFudgeFactor_lo(f) == CDiv(f.MaxNodeLimit * 2, 100)

NodeLimitFudgeFactor_hi(f) == CDiv(f.MaxNodeLimit * 40, 100)

NodeLimitFudgeFactorConstraintFunc(value, f, p) ==
  IF value < NodeLimitFudgeFactor_lo(f) \/ value > NodeLimitFudgeFactor_hi(f)
    THEN IF f.VerifyFlagConstraints
           THEN Repaired(f, "NodeLimitFudgeFactor",
                         IF value < NodeLimitFudgeFactor_lo(f)
                           THEN NodeLimitFudgeFactor_lo(f)
                           ELSE NodeLimitFudgeFactor_hi(f))
           ELSE Violation(f, Diag("BetweenPercentOfMaxNodeLimit",
                                  f.MaxNodeLimit))
    ELSE Accept(f)

RTMTotalCountIncrRateConstraintFunc(value, f, p) ==
  IF /\ p.INCLUDE_RTM_OPT
     /\ f.UseRTMLocking
     /\ ~is_power_of_2(f.RTMTotalCountIncrRate)
    THEN Result(SUCCESS, [f EXCEPT !.RTMTotalCountIncrRate = 64],
                {"RTMTotalCountIncrRate"},
                Diag("ResetTo64", f.RTMTotalCountIncrRate))
    ELSE Accept(f)

\* FLAG_IS_DEFAULT of the two flags: d is the set of flags still at default.
LoopStripMining_explicit(d) ==
  \/ "UseCountedLoopSafepoints" \notin d
  \/ "LoopStripMiningIter" \notin d

\* Variant that turns the safepoint flag on when the count is positive.
LoopStripMiningIterConstraintFunc_twoway(value, f, d, p) ==
  IF f.UseCountedLoopSafepoints /\ f.LoopStripMiningIter = 0
    THEN Result(SUCCESS, [f EXCEPT !.LoopStripMiningIter = 1],
                {"LoopStripMiningIter"}, NoDiag)
    ELSE IF ~f.UseCountedLoopSafepoints /\ f.LoopStripMiningIter > 0
      THEN Result(SUCCESS, [f EXCEPT !.UseCountedLoopSafepoints = TRUE],
                  {"UseCountedLoopSafepoints"}, NoDiag)
      ELSE Accept(f)

LoopStripMiningIterConstraintFunc(value, f, d, p) ==
  IF f.UseCountedLoopSafepoints /\ f.LoopStripMiningIter = 0
    THEN Result(SUCCESS, [f EXCEPT !.LoopStripMiningIter = 1],
                {"LoopStripMiningIter"},
                IF LoopStripMining_explicit(d)
                  THEN Diag("SettingLoopStripMiningIter", 1) ELSE NoDiag)
    ELSE IF ~f.UseCountedLoopSafepoints /\ f.LoopStripMiningIter > 0
      THEN Result(SUCCESS, [f EXCEPT !.LoopStripMiningIter = 0],
                  {"LoopStripMiningIter"},
                  IF LoopStripMining_explicit(d)
                    THEN Diag("SettingLoopStripMiningIter", 0) ELSE NoDiag)
      ELSE Accept(f)

\* The intrinsic catalog (vmIntrinsics::find_id) and the validator
\* ControlIntrinsicValidator: a list is a sequence of tokens
\* [marker, id]; it is valid when every id is in the catalog, and what()
\* is the position of the first token that is not.
IntrinsicCatalog == {"_hashCode", "_getClass"}

ControlIntrinsicValidator_is_valid(list) ==
  \A i \in 1..Len(list) : list[i].id \in IntrinsicCatalog

ControlIntrinsicValidator_what(list) ==
  CHOOSE i \in 1..Len(list) :
    /\ list[i].id \notin IntrinsicCatalog
    /\ \A j \in 1..(i - 1) : list[j].id \in IntrinsicCatalog

DisableIntrinsicConstraintFunc(value, f, p) ==
  IF ~ControlIntrinsicValidator_is_valid(value)
    THEN Violation(f, Diag("UnrecognizedIntrinsic",
                           ControlIntrinsicValidator_what(value)))
    ELSE Accept(f)

ControlIntrinsicConstraintFunc(value, f, p) ==
  IF ~ControlIntrinsicValidator_is_valid(value)
    THEN Violation(f, Diag("UnrecognizedIntrinsic",
                           ControlIntrinsicValidator_what(value)))
    ELSE Accept(f)

(***************************************************************************)
(* Platforms: the preprocessor configuration of a build together with the  *)
(* compiler configuration (CompilerConfig) the run was started with.       *)
(***************************************************************************)
Platform(n, c12, c2, x86, amd64, s390, au, ws, rtm, tiered, int_only) ==
  [name |-> n, COMPILER1_OR_COMPILER2 |-> c12, COMPILER2 |-> c2,
   X86 |-> x86, AMD64 |-> amd64, S390 |-> s390, addr_unit |-> au,
   wordSize |-> ws, INCLUDE_RTM_OPT |-> rtm, is_tiered |-> tiered,
   is_interpreter_only |-> int_only]

Platforms ==
  { Platform("amd64-tiered", TRUE, TRUE, TRUE, TRUE, FALSE, 1, 8, TRUE,
             TRUE, FALSE),
    Platform("amd64-c2", TRUE, TRUE, TRUE, TRUE, FALSE, 1, 8, TRUE,
             FALSE, FALSE),
    Platform("x86_32-int", TRUE, TRUE, TRUE, FALSE, FALSE, 1, 4, FALSE,
             FALSE, TRUE),
    Platform("ppc64-tiered", TRUE, TRUE, FALSE, FALSE, FALSE, 4, 8, FALSE,
             TRUE, FALSE),
    Platform("s390-tiered", TRUE, TRUE, FALSE, FALSE, TRUE, 2, 8, FALSE,
             TRUE, FALSE),
    Platform("zero", FALSE, FALSE, FALSE, FALSE, FALSE, 1, 8, FALSE,
             FALSE, TRUE) }

(***************************************************************************)
(* The flag store.                                                         *)
(***************************************************************************)
\* Every flag at a default that satisfies its constraint.
DefaultFlags(p, vfc) ==
  [VerifyFlagConstraints |-> vfc,
   CICompilerCount |-> IF p.COMPILER1_OR_COMPILER2 THEN 3 ELSE 0,
   AllocatePrefetchDistance |-> 192,
   AllocatePrefetchStyle |-> 1,
   AllocatePrefetchStepSize |-> 16,
   AllocatePrefetchInstr |-> 0,
   CompileThreshold |-> 1000,
   OnStackReplacePercentage |-> 140,
   ProfileInterpreter |-> TRUE,
   InterpreterProfilePercentage |-> 33,
   CodeCacheSegmentSize |-> 64,
   CodeEntryAlignment |-> 32,
   OptoLoopAlignment |-> 16,
   InteriorEntryAlignment |-> 16,
   ArraycopyDstPrefetchDistance |-> 0,
   ArraycopySrcPrefetchDistance |-> 0,
   AVX3Threshold |-> 4096,
   TypeProfileLevel |-> 111,
   VerifyIterativeGVN |-> 0,
   InitArrayShortSize |-> 64,
   NodeLimitFudgeFactor |-> 2000,
   MaxNodeLimit |-> 80000,
   UseRTMLocking |-> FALSE,
   RTMTotalCountIncrRate |-> 64,
   UseCountedLoopSafepoints |-> FALSE,
   LoopStripMiningIter |-> 0,
   DisableIntrinsic |-> <<>>,
   ControlIntrinsic |-> <<>>]

BothDefault == {"UseCountedLoopSafepoints", "LoopStripMiningIter"}

\* Values the configuration stage may have supplied for each flag.
AlignmentInputs == 1..MaxAlignmentInput

CodeEntryAlignmentInputs == {4, 8, 10, 16, 24, 32}

CompileThresholdInputs ==
  {-1, 0, 1, 1000, CompileThreshold_max, CompileThreshold_max + 1}

OnStackReplacePercentageInputs ==
  {-1, 0, 32, 33, 100, 101, 140, 233, 234, INT_MAX * 100 + 34}

TypeProfileLevelInputs ==
  {a + b * 10 + c * 100 + d * 1000 :
     a \in {0, 2, 3, 9}, b \in {0, 2, 3, 9}, c \in {0, 2, 3, 9}, d \in {0, 1}}

NodeLimitFudgeFactorInputs ==
  {19, 20, 400, 401, 1599, 1600, 2000, 32000, 32001}

IntrinsicListInputs ==
  LET good == [marker |-> "+", id |-> "_hashCode"]
      other == [marker |-> "-", id |-> "_getClass"]
      bad == [marker |-> "", id |-> "_bogus"]
  IN  {<<>>, <<good>>, <<good, other>>, <<bad>>, <<good, bad>>,
       <<bad, other>>}

\* The stores a pass can start from: the flags one constraint function reads
\* hold supplied values, every other flag holds its default.
SuppliedStores(D) ==
  UNION {
    {[D EXCEPT !.CICompilerCount = v] : v \in -1..3},
    {[D EXCEPT !.AllocatePrefetchDistance = v] :
       v \in {-1, 0, 1, 256, 512, 513}},
    {[D EXCEPT !.AllocatePrefetchStyle = s, !.AllocatePrefetchStepSize = v] :
       s \in {1, 3}, v \in (-MaxStepInput)..MaxStepInput},
    {[D EXCEPT !.AllocatePrefetchInstr = v] : v \in -1..4},
    {[D EXCEPT !.CompileThreshold = t, !.OnStackReplacePercentage = v,
               !.ProfileInterpreter = b, !.InterpreterProfilePercentage = i] :
       t \in CompileThresholdInputs, v \in OnStackReplacePercentageInputs,
       b \in BOOLEAN, i \in {0, 33}},
    {[D EXCEPT !.CodeEntryAlignment = a, !.OptoLoopAlignment = v] :
       a \in CodeEntryAlignmentInputs, v \in AlignmentInputs},
    {[D EXCEPT !.CodeEntryAlignment = a, !.InteriorEntryAlignment = v] :
       a \in CodeEntryAlignmentInputs, v \in AlignmentInputs},
    {[D EXCEPT !.CodeCacheSegmentSize = c, !.CodeEntryAlignment = a,
               !.OptoLoopAlignment = v] :
       c \in {4, 16, 64}, a \in CodeEntryAlignmentInputs, v \in {16, 128}},
    {[D EXCEPT !.ArraycopyDstPrefetchDistance = v] : v \in {0, 4031, 4032}},
    {[D EXCEPT !.ArraycopySrcPrefetchDistance = v] : v \in {0, 4031, 4032}},
    {[D EXCEPT !.AVX3Threshold = v] : v \in {0, 3, 4096}},
    {[D EXCEPT !.TypeProfileLevel = v] : v \in TypeProfileLevelInputs},
    {[D EXCEPT !.VerifyIterativeGVN = v] :
       v \in {0, 1, 2, 10, 11, 12, 20, 100, 111}},
    {[D EXCEPT !.InitArrayShortSize = v] : v \in {-8, 0, 8, 10, 12}},
    {[D EXCEPT !.MaxNodeLimit = m, !.NodeLimitFudgeFactor = v] :
       m \in {1000, 80000}, v \in NodeLimitFudgeFactorInputs},
    {[D EXCEPT !.UseRTMLocking = b, !.RTMTotalCountIncrRate = v] :
       b \in BOOLEAN, v \in {64, 100}},
    {[D EXCEPT !.DisableIntrinsic = v] : v \in IntrinsicListInputs},
    {[D EXCEPT !.ControlIntrinsic = v] : v \in IntrinsicListInputs} }

\* The stores in which the safepoint/strip-mining pair was supplied.
LoopStripMiningStores(D) ==
  {[D EXCEPT !.UseCountedLoopSafepoints = b, !.LoopStripMiningIter = v] :
     b \in BOOLEAN, v \in {0, 1, 5}}

\* A flag that is still at its default holds its default value.
DefaultsOf(f, D) ==
  {n \in BothDefault : f[n] = D[n]}

NoEvaluation(f) ==
  [rule |-> "none", pre |-> f, err |-> SUCCESS, written |-> {},
   diag |-> NoDiag]

Init ==
  /\ platform \in Platforms
  /\ \E vfc \in BOOLEAN :
       \/ /\ flags \in SuppliedStores(DefaultFlags(platform, vfc))
          /\ dflt = BothDefault
       \/ /\ flags \in LoopStripMiningStores(DefaultFlags(platform, vfc))
          /\ dflt \in SUBSET DefaultsOf(flags, DefaultFlags(platform, vfc))
  /\ last = NoEvaluation(flags)

(***************************************************************************)
(* One action per constraint function: the function is called on the       *)
(* current value of the flag it governs, and its assignments and result    *)
(* are recorded.                                                           *)
(***************************************************************************)
Evaluated(rule, r) ==
  /\ flags' = r.flags
  /\ last' = [rule |-> rule, pre |-> flags, err |-> r.err,
              written |-> r.written, diag |-> r.diag]
  /\ UNCHANGED <<dflt, platform>>

CICompilerCount ==
  Evaluated("CICompilerCount",
    CICompilerCountConstraintFunc(flags.CICompilerCount, flags, platform))

AllocatePrefetchDistance ==
  Evaluated("AllocatePrefetchDistance",
    AllocatePrefetchDistanceConstraintFunc(flags.AllocatePrefetchDistance,
                                           flags, platform))

AllocatePrefetchStepSize ==
  Evaluated("AllocatePrefetchStepSize",
    AllocatePrefetchStepSizeConstraintFunc(flags.AllocatePrefetchStepSize,
                                           flags, platform))

AllocatePrefetchInstr ==
  Evaluated("AllocatePrefetchInstr",
    AllocatePrefetchInstrConstraintFunc(flags.AllocatePrefetchInstr,
                                        flags, platform))

CompileThreshold ==
  Evaluated("CompileThreshold",
    CompileThresholdConstraintFunc(flags.CompileThreshold, flags, platform))

OnStackReplacePercentage ==
  Evaluated("OnStackReplacePercentage",
    OnStackReplacePercentageConstraintFunc(flags.OnStackReplacePercentage,
                                           flags, platform))

CodeCacheSegmentSize ==
  Evaluated("CodeCacheSegmentSize",
    CodeCacheSegmentSizeConstraintFunc(flags.CodeCacheSegmentSize,
                                       flags, platform))

CodeEntryAlignment ==
  Evaluated("CodeEntryAlignment",
    CodeEntryAlignmentConstraintFunc(flags.CodeEntryAlignment,
                                     flags, platform))

OptoLoopAlignment ==
  \E ub \in UndefinedRoundDown :
    Evaluated("OptoLoopAlignment",
      OptoLoopAlignmentConstraintFunc(flags.OptoLoopAlignment,
                                      flags, platform, ub))

ArraycopyDstPrefetchDistance ==
  Evaluated("ArraycopyDstPrefetchDistance",
    ArraycopyDstPrefetchDistanceConstraintFunc(
      flags.ArraycopyDstPrefetchDistance, flags, platform))

AVX3Threshold ==
  Evaluated("AVX3Threshold",
    AVX3ThresholdConstraintFunc(flags.AVX3Threshold, flags, platform))

ArraycopySrcPrefetchDistance ==
  Evaluated("ArraycopySrcPrefetchDistance",
    ArraycopySrcPrefetchDistanceConstraintFunc(
      flags.ArraycopySrcPrefetchDistance, flags, platform))

TypeProfileLevel ==
  Evaluated("TypeProfileLevel",
    TypeProfileLevelConstraintFunc(flags.TypeProfileLevel, flags, platform))

VerifyIterativeGVN ==
  Evaluated("VerifyIterativeGVN",
    VerifyIterativeGVNConstraintFunc(flags.VerifyIterativeGVN,
                                     flags, platform))

InitArrayShortSize ==
  Evaluated("InitArrayShortSize",
    InitArrayShortSizeConstraintFunc(flags.InitArrayShortSize,
                                     flags, platform))

InteriorEntryAlignment ==
  /\ platform.COMPILER2
  /\ \E ub \in UndefinedRoundDown :
       Evaluated("InteriorEntryAlignment",
         InteriorEntryAlignmentConstraintFunc(flags.InteriorEntryAlignment,
                                              flags, platform, ub))

NodeLimitFudgeFactor ==
  /\ platform.COMPILER2
  /\ Evaluated("NodeLimitFudgeFactor",
       NodeLimitFudgeFactorConstraintFunc(flags.NodeLimitFudgeFactor,
                                          flags, platform))

RTMTotalCountIncrRate ==
  Evaluated("RTMTotalCountIncrRate",
    RTMTotalCountIncrRateConstraintFunc(flags.RTMTotalCountIncrRate,
                                        flags, platform))

LoopStripMiningIter ==
  /\ platform.COMPILER2
  /\ Evaluated("LoopStripMiningIter",
       LoopStripMiningIterConstraintFunc(flags.LoopStripMiningIter,
                                         flags, dflt, platform))

DisableIntrinsic ==
  Evaluated("DisableIntrinsic",
    DisableIntrinsicConstraintFunc(flags.DisableIntrinsic, flags, platform))

ControlIntrinsic ==
  Evaluated("ControlIntrinsic",
    ControlIntrinsicConstraintFunc(flags.ControlIntrinsic, flags, platform))

Next ==
  \/ CICompilerCount
  \/ AllocatePrefetchDistance
  \/ AllocatePrefetchStepSize
  \/ AllocatePrefetchInstr
  \/ CompileThreshold
  \/ OnStackReplacePercentage
  \/ CodeCacheSegmentSize
  \/ CodeEntryAlignment
  \/ OptoLoopAlignment
  \/ ArraycopyDstPrefetchDistance
  \/ AVX3Threshold
  \/ ArraycopySrcPrefetchDistance
  \/ TypeProfileLevel
  \/ VerifyIterativeGVN
  \/ InitArrayShortSize
  \/ InteriorEntryAlignment
  \/ NodeLimitFudgeFactor
  \/ RTMTotalCountIncrRate
  \/ LoopStripMiningIter
  \/ DisableIntrinsic
  \/ ControlIntrinsic

Spec == Init /\ [][Next]_vars

(***************************************************************************)
(* Vocabulary of the properties.                                           *)
(***************************************************************************)
FlagNames == DOMAIN flags

\* The evaluation recorded in `last` ran in AutoRepair / Strict mode.
AutoRepair == last.rule # "none" /\ last.pre.VerifyFlagConstraints

Strict == last.rule # "none" /\ ~last.pre.VerifyFlagConstraints

\* The value the evaluated rule was called on.
Supplied == last.pre[last.rule]

\* Every flag other than those in `except` kept its value.
Unchanged(except) ==
  \A n \in FlagNames \ except : flags[n] = last.pre[n]

RepairableRules ==
  {"CICompilerCount", "AllocatePrefetchDistance", "AllocatePrefetchStepSize",
   "AllocatePrefetchInstr", "CompileThreshold", "OnStackReplacePercentage",
   "OptoLoopAlignment", "TypeProfileLevel", "InteriorEntryAlignment",
   "NodeLimitFudgeFactor"}

\* The rule evaluated in Strict mode on the current value of its flag.
StrictReplay(rule, f, p) ==
  LET s == [f EXCEPT !.VerifyFlagConstraints = FALSE]
  IN  CASE rule = "CICompilerCount" ->
             CICompilerCountConstraintFunc(s.CICompilerCount, s, p)
        [] rule = "AllocatePrefetchDistance" ->
             AllocatePrefetchDistanceConstraintFunc(
               s.AllocatePrefetchDistance, s, p)
        [] rule = "AllocatePrefetchStepSize" ->
             AllocatePrefetchStepSizeConstraintFunc(
               s.AllocatePrefetchStepSize, s, p)
        [] rule = "AllocatePrefetchInstr" ->
             AllocatePrefetchInstrConstraintFunc(s.AllocatePrefetchInstr, s, p)
        [] rule = "CompileThreshold" ->
             CompileThresholdConstraintFunc(s.CompileThreshold, s, p)
        [] rule = "OnStackReplacePercentage" ->
             OnStackReplacePercentageConstraintFunc(
               s.OnStackReplacePercentage, s, p)
        [] rule = "OptoLoopAlignment" ->
             OptoLoopAlignmentConstraintFunc(s.OptoLoopAlignment, s, p, 0)
        [] rule = "TypeProfileLevel" ->
             TypeProfileLevelConstraintFunc(s.TypeProfileLevel, s, p)
        [] rule = "InteriorEntryAlignment" ->
             InteriorEntryAlignmentConstraintFunc(
               s.InteriorEntryAlignment, s, p, 0)
        [] rule = "NodeLimitFudgeFactor" ->
             NodeLimitFudgeFactorConstraintFunc(s.NodeLimitFudgeFactor, s, p)

(***************************************************************************)
(* C1  Repair-then-accept: the value an AutoRepair evaluation of a         *)
(* repairable rule wrote to its flag is accepted, with no further write,   *)
(* when the same rule is evaluated on it in Strict mode against the        *)
(* resulting store.                                                        *)
(***************************************************************************)
RepairThenAccept ==
  (AutoRepair /\ last.rule \in RepairableRules /\ last.rule \in last.written)
    => LET r == StrictReplay(last.rule, flags, platform)
       IN  r.err = SUCCESS /\ r.written = {}

(***************************************************************************)
(* C2  Dependency short-circuit.                                           *)
(***************************************************************************)
CompileThresholdInvalid(f, p) ==
  CompileThresholdConstraintFunc(
    f.CompileThreshold, [f EXCEPT !.VerifyFlagConstraints = FALSE], p).err
      = VIOLATES_CONSTRAINT

CodeEntryAlignmentInvalid(f, p) ==
  CodeEntryAlignmentConstraintFunc(f.CodeEntryAlignment, f, p).err
    = VIOLATES_CONSTRAINT

ReportsInvalidDependency ==
  /\ last.err = VIOLATES_CONSTRAINT
  /\ last.diag.kind = "DependencyInvalid"
  /\ last.written = {}
  /\ flags = last.pre

\* C2 as claimed: in Strict mode every rule that reads another governed
\* parameter (OnStackReplacePercentage reads CompileThreshold;
\* OptoLoopAlignment, InteriorEntryAlignment and CodeCacheSegmentSize read
\* CodeEntryAlignment) returns a violation attributed to the dependency
\* whenever the dependency violates its own rule.
DependencyShortCircuitAllRules ==
  /\ (Strict /\ last.rule = "OnStackReplacePercentage"
        /\ CompileThresholdInvalid(last.pre, platform))
       => ReportsInvalidDependency
  /\ (Strict /\ last.rule \in {"OptoLoopAlignment", "InteriorEntryAlignment",
                              "CodeCacheSegmentSize"}
        /\ CodeEntryAlignmentInvalid(last.pre, platform))
       => ReportsInvalidDependency

\* C2 as amended: in Strict mode the OnStackReplacePercentage rule returns a
\* violation attributed to CompileThreshold, writing nothing, whenever
\* CompileThreshold violates its own rule, for every value of
\* OnStackReplacePercentage; and the rules that read CodeEntryAlignment do
\* not check it against its own rule: they never report an invalid
\* dependency.
DependencyShortCircuit ==
  /\ (Strict /\ last.rule = "OnStackReplacePercentage"
        /\ CompileThresholdInvalid(last.pre, platform))
       => ReportsInvalidDependency
  /\ (last.rule \in {"OptoLoopAlignment", "InteriorEntryAlignment",
                     "CodeCacheSegmentSize"})
       => last.diag.kind # "DependencyInvalid"

\* An in-range OnStackReplacePercentage was evaluated in Strict mode while
\* CompileThreshold was above its maximum.
DependencyShortCircuitWitness ==
  /\ Strict
  /\ last.rule = "OnStackReplacePercentage"
  /\ last.pre.CompileThreshold = CompileThreshold_max + 1
  /\ last.pre.OnStackReplacePercentage = 140
  /\ last.err = VIOLATES_CONSTRAINT

(***************************************************************************)
(* C3  Rules that can return a violation in AutoRepair mode.               *)
(***************************************************************************)
\* C3 as claimed: in AutoRepair mode only the two intrinsic-list rules and
\* the alignment parameters excluded from repair as non-production return a
\* violation; VerifyIterativeGVN and InitArrayShortSize in particular never
\* do.
OnlyListsAndAlignmentsViolate ==
  (AutoRepair /\ last.err = VIOLATES_CONSTRAINT)
    => last.rule \in {"DisableIntrinsic", "ControlIntrinsic",
                      "CodeEntryAlignment", "CodeCacheSegmentSize",
                      "AVX3Threshold"}

RulesWithoutRepair ==
  {"DisableIntrinsic", "ControlIntrinsic", "CodeEntryAlignment",
   "CodeCacheSegmentSize", "AVX3Threshold", "ArraycopyDstPrefetchDistance",
   "ArraycopySrcPrefetchDistance", "VerifyIterativeGVN",
   "InitArrayShortSize"}

\* C3 as amended: in AutoRepair mode every rule with a repair path returns
\* success for every input; the rules that can return a violation are the
\* two intrinsic-list rules, CodeEntryAlignment, CodeCacheSegmentSize,
\* AVX3Threshold, the two Arraycopy prefetch distances, VerifyIterativeGVN
\* and InitArrayShortSize, which have no repair path and never write.
AutoRepairViolations ==
  /\ (AutoRepair /\ last.err = VIOLATES_CONSTRAINT)
       => last.rule \in RulesWithoutRepair
  /\ last.rule \in RulesWithoutRepair
       => last.written = {} /\ flags = last.pre

\* AutoRepair returned a violation for the digit-packed VerifyIterativeGVN.
AutoRepairViolationsWitness ==
  /\ AutoRepair
  /\ last.rule = "VerifyIterativeGVN"
  /\ Supplied = 12
  /\ last.err = VIOLATES_CONSTRAINT

(***************************************************************************)
(* C4  The safepoint / strip-mining consistency rule.                      *)
(***************************************************************************)
Inconsistent(f) ==
  \/ f.UseCountedLoopSafepoints /\ f.LoopStripMiningIter = 0
  \/ ~f.UseCountedLoopSafepoints /\ f.LoopStripMiningIter > 0

Consistent(f) == ~Inconsistent(f)

\* C4 as claimed: when exactly one of the two flags was explicitly set and
\* the pair is inconsistent, the one left at its default is changed to agree
\* and the explicitly set one keeps its value; when both are at their
\* defaults neither changes.
TwoWayCanonicalization ==
  last.rule = "LoopStripMiningIter" =>
    /\ (Inconsistent(last.pre) /\ dflt = {"LoopStripMiningIter"})
         => /\ flags.UseCountedLoopSafepoints
                 = last.pre.UseCountedLoopSafepoints
            /\ Consistent(flags)
    /\ (Inconsistent(last.pre) /\ dflt = {"UseCountedLoopSafepoints"})
         => /\ flags.LoopStripMiningIter = last.pre.LoopStripMiningIter
            /\ Consistent(flags)
    /\ dflt = BothDefault => flags = last.pre

\* C4 as amended: in both modes the rule changes LoopStripMiningIter only,
\* whichever flag was explicitly set: to 1 when UseCountedLoopSafepoints is
\* on and the count is 0, to 0 when it is off and the count is positive;
\* UseCountedLoopSafepoints always keeps its value, and when both flags are
\* at their defaults nothing changes.
OneWayNormalization ==
  last.rule = "LoopStripMiningIter" =>
    /\ last.err = SUCCESS
    /\ Unchanged({"LoopStripMiningIter"})
    /\ flags.LoopStripMiningIter =
         IF last.pre.UseCountedLoopSafepoints
           THEN (IF last.pre.LoopStripMiningIter = 0
                   THEN 1 ELSE last.pre.LoopStripMiningIter)
           ELSE 0
    /\ dflt = BothDefault => flags = last.pre

\* The explicitly set count 5 was reset to 0 because the safepoint flag,
\* left at its default, is off.
OneWayNormalizationWitness ==
  /\ last.rule = "LoopStripMiningIter"
  /\ dflt = {"UseCountedLoopSafepoints"}
  /\ last.pre.LoopStripMiningIter = 5
  /\ flags.LoopStripMiningIter = 0
  /\ ~flags.UseCountedLoopSafepoints

(***************************************************************************)
(* C5  Evaluating a rule changes no flag other than the one it governs     *)
(* (the safepoint / strip-mining pair excepted), in both modes.            *)
(***************************************************************************)
OnlyGovernedFlagChanges ==
  last.rule # "none" =>
    IF last.rule = "LoopStripMiningIter"
      THEN /\ Unchanged(BothDefault)
           /\ last.written \subseteq BothDefault
      ELSE /\ Unchanged({last.rule})
           /\ last.written \subseteq {last.rule}

(***************************************************************************)
(* C6  CodeEntryAlignment has no repair path: a value that is not a power  *)
(* of two or is below 16 is a violation in both modes, and no flag         *)
(* changes.                                                                *)
(***************************************************************************)
CodeEntryAlignmentNeverRepaired ==
  (last.rule = "CodeEntryAlignment"
     /\ (~is_power_of_2(Supplied) \/ Supplied < 16))
    => /\ last.err = VIOLATES_CONSTRAINT
       /\ last.written = {}
       /\ flags = last.pre

\* The value 10 was rejected in AutoRepair mode.
CodeEntryAlignmentNeverRepairedWitness ==
  /\ AutoRepair
  /\ last.rule = "CodeEntryAlignment"
  /\ Supplied = 10
  /\ last.err = VIOLATES_CONSTRAINT
  /\ flags.CodeEntryAlignment = 10

(***************************************************************************)
(* C7  Power-of-two repair: for a positive non-power-of-two x supplied to  *)
(* OptoLoopAlignment or InteriorEntryAlignment in AutoRepair mode the      *)
(* value written is the largest power of two not exceeding x, unless it is *)
(* clamped to the CodeEntryAlignment ceiling or to the required minimum    *)
(* alignment.                                                              *)
(***************************************************************************)
Min(a, b) == IF a <= b THEN a ELSE b

PowerOfTwoRepair ==
  (AutoRepair /\ last.rule \in {"OptoLoopAlignment", "InteriorEntryAlignment"}
     /\ Supplied > 0 /\ ~is_power_of_2(Supplied))
    => LET w == flags[last.rule]
           ceiling == last.pre.CodeEntryAlignment
           rounded == round_down_power_of_2(Supplied)
       IN  /\ last.rule \in last.written
           /\ \/ w = rounded
              \/ w = ceiling /\ rounded > ceiling
              \/ /\ last.rule = "InteriorEntryAlignment"
                 /\ Supplied > ceiling
                 /\ w = round_down_power_of_2(ceiling)
              \/ /\ last.rule = "InteriorEntryAlignment"
                 /\ w = minimum_alignment(platform)
                 /\ Min(rounded, ceiling) < minimum_alignment(platform)

(***************************************************************************)
(* C8  Digit-packed repair of TypeProfileLevel (3 positions, maximum 2).   *)
(* Strict: an out-of-range digit is a violation naming the lowest          *)
(* offending position, a nonzero part above the third digit is a           *)
(* violation.  AutoRepair: the flag ends as the sum over i in 0..2 of      *)
(* min(digit_i, 2) * 10^i, all higher digits dropped.                      *)
(***************************************************************************)
DigitAt(x, i) == (x \div (10^i)) % 10

ClampedDigits(x) ==
  Min(DigitAt(x, 0), 2) + Min(DigitAt(x, 1), 2) * 10
    + Min(DigitAt(x, 2), 2) * 100

OffendingPositions(x) == {i \in 0..2 : DigitAt(x, i) > 2}

DigitPackedRepair ==
  last.rule = "TypeProfileLevel" =>
    LET x == Supplied
        bad == OffendingPositions(x)
    IN  /\ (Strict /\ bad # {})
             => /\ last.err = VIOLATES_CONSTRAINT
                /\ last.diag.kind = "InvalidAtPosition"
                /\ last.diag.arg \in bad
                /\ \A i \in bad : last.diag.arg <= i
                /\ flags = last.pre
        /\ (Strict /\ bad = {} /\ x \div 1000 # 0)
             => /\ last.err = VIOLATES_CONSTRAINT
                /\ last.diag.kind = "TooManyDigits"
                /\ flags = last.pre
        /\ (Strict /\ bad = {} /\ x \div 1000 = 0)
             => last.err = SUCCESS /\ flags = last.pre
        /\ AutoRepair
             => /\ last.err = SUCCESS
                /\ flags.TypeProfileLevel = ClampedDigits(x)
                /\ Unchanged({"TypeProfileLevel"})
                /\ ("TypeProfileLevel" \in last.written)
                     <=> (bad # {} \/ x \div 1000 # 0)

\* 239 was repaired to 222.
DigitPackedRepairWitness ==
  /\ AutoRepair
  /\ last.rule = "TypeProfileLevel"
  /\ Supplied = 239
  /\ flags.TypeProfileLevel = 222
  /\ "TypeProfileLevel" \in last.written

(***************************************************************************)
(* C9  Multiple-of-N repair: a value that is not a multiple of the         *)
(* required N is repaired to value - (value % N), or to N when that is     *)
(* zero, so a repaired value is never zero (AllocatePrefetchStepSize with  *)
(* N = wordSize under AllocatePrefetchStyle 3; the NOP-size step of        *)
(* OptoLoopAlignment); in Strict mode the input is a violation and         *)
(* nothing is written.                                                     *)
(***************************************************************************)
SteppedDown(v, n) ==
  IF v - CRem(v, n) = 0 THEN n ELSE v - CRem(v, n)

MultipleOfRepair ==
  /\ (last.rule = "AllocatePrefetchStepSize"
        /\ last.pre.AllocatePrefetchStyle = 3
        /\ CRem(Supplied, platform.wordSize) # 0)
       => IF AutoRepair
            THEN /\ last.err = SUCCESS
                 /\ flags.AllocatePrefetchStepSize
                      = SteppedDown(Supplied, platform.wordSize)
                 /\ flags.AllocatePrefetchStepSize # 0
            ELSE last.err = VIOLATES_CONSTRAINT /\ flags = last.pre
  /\ (last.rule = "OptoLoopAlignment" /\ Supplied > 0)
       => LET v == IF is_power_of_2(Supplied) THEN Supplied
                   ELSE round_down_power_of_2(Supplied)
              stepped == SteppedDown(v, platform.addr_unit)
          IN  CRem(v, platform.addr_unit) # 0
                => IF AutoRepair
                     THEN /\ last.err = SUCCESS
                          /\ flags.OptoLoopAlignment
                               = Min(stepped, last.pre.CodeEntryAlignment)
                          /\ flags.OptoLoopAlignment # 0
                     ELSE last.err = VIOLATES_CONSTRAINT /\ flags = last.pre

(***************************************************************************)
(* C10  Bounded-range repair clamps to the nearest bound: in AutoRepair    *)
(* mode an input below lo is replaced by exactly lo and an input above hi  *)
(* by exactly hi (AllocatePrefetchDistance [0, 512], AllocatePrefetchInstr,*)
(* CompileThreshold, NodeLimitFudgeFactor, the CICompilerCount minimum).   *)
(***************************************************************************)
RangeLo(rule, f, p) ==
  CASE rule = "AllocatePrefetchDistance" -> 0
    [] rule = "AllocatePrefetchInstr" -> 0
    [] rule = "CompileThreshold" -> 0
    [] rule = "NodeLimitFudgeFactor" -> NodeLimitFudgeFactor_lo(f)
    [] rule = "CICompilerCount" -> min_number_of_compiler_threads(p)

RangeHi(rule, f, p) ==
  CASE rule = "AllocatePrefetchDistance" -> 512
    [] rule = "AllocatePrefetchInstr" -> AllocatePrefetchInstr_max_value(p)
    [] rule = "CompileThreshold" -> CompileThreshold_max
    [] rule = "NodeLimitFudgeFactor" -> NodeLimitFudgeFactor_hi(f)

BoundedRangeClamp ==
  /\ (AutoRepair
        /\ last.rule \in {"AllocatePrefetchDistance", "AllocatePrefetchInstr",
                          "CompileThreshold", "NodeLimitFudgeFactor",
                          "CICompilerCount"}
        /\ Supplied < RangeLo(last.rule, last.pre, platform))
       => flags[last.rule] = RangeLo(last.rule, last.pre, platform)
  /\ (AutoRepair
        /\ last.rule \in {"AllocatePrefetchDistance", "AllocatePrefetchInstr",
                          "CompileThreshold", "NodeLimitFudgeFactor"}
        /\ Supplied > RangeHi(last.rule, last.pre, platform))
       => flags[last.rule] = RangeHi(last.rule, last.pre, platform)

(***************************************************************************)
(* C11  Derived bound of OnStackReplacePercentage, given a valid           *)
(* CompileThreshold T: with M = INT_MAX and s = count_shift the base limit *)
(* is B = (M if profiling is enabled, else M >> s) * 100 / T, or that      *)
(* times 100 with no division when T = 0, computed without overflow of the *)
(* 64-bit intermediate.  With profiling disabled the accepted values are   *)
(* exactly [0, B]; with profiling enabled exactly                          *)
(* [InterpreterProfilePercentage, B + InterpreterProfilePercentage].       *)
(* A value outside is a violation in Strict mode and is clamped to the     *)
(* violated bound in AutoRepair mode.                                      *)
(***************************************************************************)
\* The largest int64_t, at the scaled width (63 value bits for int's 31).
max_jlong == 2^(2 * IntBits + 1) - 1

BaseLimit(f) ==
  LET M == IF f.ProfileInterpreter THEN INT_MAX
           ELSE INT_MAX \div (2^count_shift)
  IN  IF f.CompileThreshold = 0 THEN M * 100
      ELSE (M * 100) \div f.CompileThreshold

AcceptedLo(f) ==
  IF f.ProfileInterpreter THEN f.InterpreterProfilePercentage ELSE 0

AcceptedHi(f) ==
  IF f.ProfileInterpreter
    THEN BaseLimit(f) + f.InterpreterProfilePercentage
    ELSE BaseLimit(f)

CompileThresholdValid(f) ==
  f.CompileThreshold >= 0 /\ f.CompileThreshold <= CompileThreshold_max

DerivedBound ==
  (last.rule = "OnStackReplacePercentage" /\ CompileThresholdValid(last.pre))
    => LET x == Supplied
           lo == AcceptedLo(last.pre)
           hi == AcceptedHi(last.pre)
       IN  /\ INT_MAX * 100 + last.pre.InterpreterProfilePercentage
                <= max_jlong
           /\ Strict
                => /\ (last.err = SUCCESS) <=> (lo <= x /\ x <= hi)
                   /\ last.err \in {SUCCESS, VIOLATES_CONSTRAINT}
                   /\ last.diag.kind # "DependencyInvalid"
                   /\ flags = last.pre
           /\ AutoRepair
                => /\ last.err = SUCCESS
                   /\ flags.OnStackReplacePercentage =
                        IF x < lo THEN lo ELSE IF x > hi THEN hi ELSE x
                   /\ Unchanged({"OnStackReplacePercentage"})

\* With profiling enabled and CompileThreshold at its maximum, the value one
\* above the upper bound was clamped to the bound.
DerivedBoundWitness ==
  /\ AutoRepair
  /\ last.rule = "OnStackReplacePercentage"
  /\ last.pre.ProfileInterpreter
  /\ last.pre.CompileThreshold = CompileThreshold_max
  /\ last.pre.InterpreterProfilePercentage = 33
  /\ Supplied = AcceptedHi(last.pre) + 1
  /\ flags.OnStackReplacePercentage = AcceptedHi(last.pre)

(***************************************************************************)
(* C12  The dependency graph: an edge P -> Q whenever the rule governing P *)
(* reads the current value of another governed parameter Q.                *)
(***************************************************************************)
GovernedFlags ==
  {"CICompilerCount", "AllocatePrefetchDistance", "AllocatePrefetchStepSize",
   "AllocatePrefetchInstr", "CompileThreshold", "OnStackReplacePercentage",
   "CodeCacheSegmentSize", "CodeEntryAlignment", "OptoLoopAlignment",
   "ArraycopyDstPrefetchDistance", "AVX3Threshold",
   "ArraycopySrcPrefetchDistance", "TypeProfileLevel", "VerifyIterativeGVN",
   "InitArrayShortSize", "InteriorEntryAlignment", "NodeLimitFudgeFactor",
   "RTMTotalCountIncrRate", "LoopStripMiningIter", "DisableIntrinsic",
   "ControlIntrinsic"}

\* The rule of a governed flag called on the flag's value in store f.
RuleResult(rule, f, d, p) ==
  CASE rule = "CICompilerCount" ->
         CICompilerCountConstraintFunc(f.CICompilerCount, f, p)
    [] rule = "AllocatePrefetchDistance" ->
         AllocatePrefetchDistanceConstraintFunc(
           f.AllocatePrefetchDistance, f, p)
    [] rule = "AllocatePrefetchStepSize" ->
         AllocatePrefetchStepSizeConstraintFunc(
           f.AllocatePrefetchStepSize, f, p)
    [] rule = "AllocatePrefetchInstr" ->
         AllocatePrefetchInstrConstraintFunc(f.AllocatePrefetchInstr, f, p)
    [] rule = "CompileThreshold" ->
         CompileThresholdConstraintFunc(f.CompileThreshold, f, p)
    [] rule = "OnStackReplacePercentage" ->
         OnStackReplacePercentageConstraintFunc(
           f.OnStackReplacePercentage, f, p)
    [] rule = "CodeCacheSegmentSize" ->
         CodeCacheSegmentSizeConstraintFunc(f.CodeCacheSegmentSize, f, p)
    [] rule = "CodeEntryAlignment" ->
         CodeEntryAlignmentConstraintFunc(f.CodeEntryAlignment, f, p)
    [] rule = "OptoLoopAlignment" ->
         OptoLoopAlignmentConstraintFunc(f.OptoLoopAlignment, f, p, 0)
    [] rule = "ArraycopyDstPrefetchDistance" ->
         ArraycopyDstPrefetchDistanceConstraintFunc(
           f.ArraycopyDstPrefetchDistance, f, p)
    [] rule = "AVX3Threshold" ->
         AVX3ThresholdConstraintFunc(f.AVX3Threshold, f, p)
    [] rule = "ArraycopySrcPrefetchDistance" ->
         ArraycopySrcPrefetchDistanceConstraintFunc(
           f.ArraycopySrcPrefetchDistance, f, p)
    [] rule = "TypeProfileLevel" ->
         TypeProfileLevelConstraintFunc(f.TypeProfileLevel, f, p)
    [] rule = "VerifyIterativeGVN" ->
         VerifyIterativeGVNConstraintFunc(f.VerifyIterativeGVN, f, p)
    [] rule = "InitArrayShortSize" ->
         InitArrayShortSizeConstraintFunc(f.InitArrayShortSize, f, p)
    [] rule = "InteriorEntryAlignment" ->
         InteriorEntryAlignmentConstraintFunc(
           f.InteriorEntryAlignment, f, p, 0)
    [] rule = "NodeLimitFudgeFactor" ->
         NodeLimitFudgeFactorConstraintFunc(f.NodeLimitFudgeFactor, f, p)
    [] rule = "RTMTotalCountIncrRate" ->
         RTMTotalCountIncrRateConstraintFunc(f.RTMTotalCountIncrRate, f, p)
    [] rule = "LoopStripMiningIter" ->
         LoopStripMiningIterConstraintFunc(f.LoopStripMiningIter, f, d, p)
    [] rule = "DisableIntrinsic" ->
         DisableIntrinsicConstraintFunc(f.DisableIntrinsic, f, p)
    [] rule = "ControlIntrinsic" ->
         ControlIntrinsicConstraintFunc(f.ControlIntrinsic, f, p)

\* What a caller of the rule observes: the error, the diagnostic kind and
\* the value the governed flag ends with.
RuleOutcome(rule, f, d, p) ==
  LET r == RuleResult(rule, f, d, p)
  IN  <<r.err, r.diag.kind, r.flags[rule]>>

\* The rules under #ifdef COMPILER2 exist only in a build with COMPILER2.
RuleCompiled(rule, p) ==
  rule \in {"InteriorEntryAlignment", "NodeLimitFudgeFactor",
            "LoopStripMiningIter"} => p.COMPILER2

\* Other values to try for a flag.
ProbeValues(q) ==
  IF q \in {"DisableIntrinsic", "ControlIntrinsic"}
    THEN {<<>>, <<[marker |-> "", id |-> "_bogus"]>>}
    ELSE {-1, 0, 4, 128}

\* The rule of `rule` reads q at store f: changing only q changes what the
\* rule does.
ReadsAt(rule, q, f, d, p) ==
  /\ RuleCompiled(rule, p)
  /\ \E v \in ProbeValues(q) :
       RuleOutcome(rule, [f EXCEPT ![q] = v], d, p)
         # RuleOutcome(rule, f, d, p)

ReadsObserved(rule, f, d, p) ==
  {q \in GovernedFlags \ {rule} : ReadsAt(rule, q, f, d, p)}

\* Edges P -> Q observed at store f.
ObservedEdges(f, d, p) ==
  {e \in GovernedFlags \X GovernedFlags :
     e[1] # e[2] /\ ReadsAt(e[1], e[2], f, d, p)}

ExtendPaths(R, E) ==
  R \cup {<<z[1][1], z[2][2]>> : z \in {y \in R \X E : y[1][2] = y[2][1]}}

RECURSIVE Paths(_, _, _)
Paths(R, E, n) == IF n = 0 THEN R ELSE Paths(ExtendPaths(R, E), E, n - 1)

Acyclic(E) == \A e \in Paths(E, E, Cardinality(E)) : e[1] # e[2]

\* C12 as claimed: there is no cycle among the governed parameters; in
\* particular CodeCacheSegmentSize and CodeEntryAlignment do not each read
\* the other.
DependencyGraphAcyclic ==
  last.rule # "none" => Acyclic(ObservedEdges(last.pre, dflt, platform))

\* The governed parameters each rule reads besides its own.
DependencyEdges ==
  {<<"OnStackReplacePercentage", "CompileThreshold">>,
   <<"OptoLoopAlignment", "CodeEntryAlignment">>,
   <<"InteriorEntryAlignment", "CodeEntryAlignment">>,
   <<"CodeCacheSegmentSize", "CodeEntryAlignment">>,
   <<"CodeCacheSegmentSize", "OptoLoopAlignment">>,
   <<"CodeEntryAlignment", "CodeCacheSegmentSize">>}

\* C12 as amended: the rules read exactly along the edges
\* OnStackReplacePercentage -> CompileThreshold,
\* OptoLoopAlignment -> CodeEntryAlignment,
\* InteriorEntryAlignment -> CodeEntryAlignment,
\* CodeCacheSegmentSize -> CodeEntryAlignment,
\* CodeCacheSegmentSize -> OptoLoopAlignment and
\* CodeEntryAlignment -> CodeCacheSegmentSize; CodeCacheSegmentSize and
\* CodeEntryAlignment each read the other, and that is the only cycle: the
\* graph without the edge CodeEntryAlignment -> CodeCacheSegmentSize is
\* acyclic.
DependencyGraphOneCycle ==
  /\ last.rule # "none"
       => \A q \in ReadsObserved(last.rule, last.pre, dflt, platform) :
            <<last.rule, q>> \in DependencyEdges
  /\ ~Acyclic(DependencyEdges)
  /\ Acyclic(DependencyEdges
               \ {<<"CodeEntryAlignment", "CodeCacheSegmentSize">>})

\* CodeEntryAlignment was evaluated at a store where its rule reads
\* CodeCacheSegmentSize and the CodeCacheSegmentSize rule reads
\* CodeEntryAlignment.
DependencyGraphOneCycleWitness ==
  /\ last.rule = "CodeEntryAlignment"
  /\ last.err = SUCCESS
  /\ ReadsAt("CodeEntryAlignment", "CodeCacheSegmentSize",
             last.pre, dflt, platform)
  /\ ReadsAt("CodeCacheSegmentSize", "CodeEntryAlignment",
             last.pre, dflt, platform)

====
